---- MODULE Spec2Model ----
(***************************************************************************)
(* Model of the enforcement-tracker crawler (src/scraper_playwright.py)    *)
(* and of its store (src/db.py).                                           *)
(*                                                                         *)
(* Text.  A Python str is a sequence of one-character strings.  The token  *)
(* "EUR" stands for the euro sign and "NBSP" for U+00A0.  Python's None is *)
(* the value None below, which is no text.                                 *)
(***************************************************************************)
EXTENDS Integers, Sequences, FiniteSets, TLC

None == <<"None">>

\* Python truthiness of an Optional[str]: None and "" are falsy.
Truthy(v) == v # None /\ v # <<>>

\* Python `a or b` on Optional[str] operands.
Or(a, b) == IF Truthy(a) THEN a ELSE b

Whitespace == {" ", "\t", "\n", "\r", "NBSP"}

Digits == {"0", "1", "2", "3", "4", "5", "6", "7", "8", "9"}

DigitTab == ("0" :> 0) @@ ("1" :> 1) @@ ("2" :> 2) @@ ("3" :> 3) @@ ("4" :> 4) @@
            ("5" :> 5) @@ ("6" :> 6) @@ ("7" :> 7) @@ ("8" :> 8) @@ ("9" :> 9)

LowerTab == ("A" :> "a") @@ ("B" :> "b") @@ ("C" :> "c") @@ ("D" :> "d") @@
            ("E" :> "e") @@ ("F" :> "f") @@ ("G" :> "g") @@ ("H" :> "h") @@
            ("I" :> "i") @@ ("J" :> "j") @@ ("K" :> "k") @@ ("L" :> "l") @@
            ("M" :> "m") @@ ("N" :> "n") @@ ("O" :> "o") @@ ("P" :> "p") @@
            ("Q" :> "q") @@ ("R" :> "r") @@ ("S" :> "s") @@ ("T" :> "t") @@
            ("U" :> "u") @@ ("V" :> "v") @@ ("W" :> "w") @@ ("X" :> "x") @@
            ("Y" :> "y") @@ ("Z" :> "z")

RECURSIVE Lower(_)
\* str.lower()
Lower(s) ==
    IF s = <<>> THEN <<>>
    ELSE <<IF Head(s) \in DOMAIN LowerTab THEN LowerTab[Head(s)] ELSE Head(s)>> \o Lower(Tail(s))

RECURSIVE LStripSet(_, _)
\* str.lstrip(chars)
LStripSet(s, cs) == IF s # <<>> /\ Head(s) \in cs THEN LStripSet(Tail(s), cs) ELSE s

RECURSIVE RStripSet(_, _)
\* str.rstrip(chars)
RStripSet(s, cs) ==
    IF s # <<>> /\ s[Len(s)] \in cs THEN RStripSet(SubSeq(s, 1, Len(s) - 1), cs) ELSE s

\* str.strip(chars)
StripSet(s, cs) == RStripSet(LStripSet(s, cs), cs)

\* str.strip()
Strip(s) == StripSet(s, Whitespace)

\* str.startswith(p)
StartsWith(s, p) == Len(p) <= Len(s) /\ SubSeq(s, 1, Len(p)) = p

\* str.find(p) + 1: the position of the first occurrence of p in s, 0 when there is none
Find(s, p) ==
    LET hits == {i \in 1..(Len(s) - Len(p) + 1) : SubSeq(s, i, i + Len(p) - 1) = p}
    IN  IF hits = {} THEN 0 ELSE CHOOSE i \in hits : \A j \in hits : i <= j

\* `p in s`
Contains(s, p) == Find(s, p) # 0

RECURSIVE Replace(_, _, _)
\* str.replace(p, r), p non-empty
Replace(s, p, r) ==
    LET i == Find(s, p)
    IN  IF i = 0 THEN s
        ELSE SubSeq(s, 1, i - 1) \o r \o Replace(SubSeq(s, i + Len(p), Len(s)), p, r)

RECURSIVE CollapseWs(_)
\* re.sub(r"\s+", " ", s)
CollapseWs(s) ==
    IF s = <<>> THEN <<>>
    ELSE IF Head(s) \in Whitespace THEN <<" ">> \o CollapseWs(LStripSet(s, Whitespace))
    ELSE <<Head(s)>> \o CollapseWs(Tail(s))

RECURSIVE SplitLines(_)
\* str.splitlines() for texts whose only line boundary is "\n"
SplitLines(s) ==
    IF s = <<>> THEN <<>>
    ELSE LET i == Find(s, <<"\n">>)
         IN  IF i = 0 THEN <<s>>
             ELSE <<SubSeq(s, 1, i - 1)>> \o SplitLines(SubSeq(s, i + 1, Len(s)))

\* s.split(p, 1)[-1]
AfterFirst(s, p) ==
    LET i == Find(s, p) IN IF i = 0 THEN s ELSE SubSeq(s, i + Len(p), Len(s))

(***************************************************************************)
(* Field normalizer: parse_amount_eur, parse_date, absolute_url.           *)
(***************************************************************************)

BASE_URL == <<"h", "t", "t", "p", "s", ":", "/", "/", "w", "w", "w", ".", "e", "n", "f",
              "o", "r", "c", "e", "m", "e", "n", "t", "t", "r", "a", "c", "k", "e", "r",
              ".", "c", "o", "m">>

\* A float is <<"float", negative, mantissa, scale>>: the number mantissa / 10^scale
\* with the least scale >= 0; infinities and NaN carry "inf" / "nan" as mantissa.
Float(neg, mant, scale) == <<"float", neg, mant, scale>>

RECURSIVE NatOf(_)
NatOf(ds) == IF ds = <<>> THEN 0
             ELSE NatOf(SubSeq(ds, 1, Len(ds) - 1)) * 10 + DigitTab[ds[Len(ds)]]

RECURSIVE Pow10(_)
Pow10(n) == IF n <= 0 THEN 1 ELSE 10 * Pow10(n - 1)

RECURSIVE Normalize(_, _, _)
Normalize(neg, mant, scale) ==
    IF mant = 0 THEN Float(neg, 0, 0)
    ELSE IF scale > 0 /\ mant % 10 = 0 THEN Normalize(neg, mant \div 10, scale - 1)
    ELSE Float(neg, mant, scale)

\* A run of decimal digits in which single underscores may separate digits.
IsDigitRun(s) ==
    /\ s # <<>>
    /\ \A i \in 1..Len(s) :
          \/ s[i] \in Digits
          \/ /\ s[i] = "_"
             /\ 1 < i /\ i < Len(s)
             /\ s[i - 1] \in Digits /\ s[i + 1] \in Digits

DigitsOnly(s) == SelectSeq(s, LAMBDA c : c \in Digits)

\* float(txt): the value, or None where Python raises ValueError.
ParseFloat(txt) ==
    LET t      == Strip(txt)
        signed == t # <<>> /\ t[1] \in {"+", "-"}
        neg    == signed /\ t[1] = "-"
        body   == IF signed THEN Tail(t) ELSE t
        low    == Lower(body)
        ePos   == Find(low, <<"e">>)
        mtxt   == IF ePos = 0 THEN body ELSE SubSeq(body, 1, ePos - 1)
        etxt   == IF ePos = 0 THEN <<>> ELSE SubSeq(body, ePos + 1, Len(body))
        esign  == etxt # <<>> /\ etxt[1] \in {"+", "-"}
        edig   == IF esign THEN Tail(etxt) ELSE etxt
        eOk    == ePos = 0 \/ IsDigitRun(edig)
        eVal   == IF ePos = 0 THEN 0
                  ELSE IF esign /\ etxt[1] = "-" THEN 0 - NatOf(DigitsOnly(edig))
                  ELSE NatOf(DigitsOnly(edig))
        dot    == Find(mtxt, <<".">>)
        ipart  == IF dot = 0 THEN mtxt ELSE SubSeq(mtxt, 1, dot - 1)
        fpart  == IF dot = 0 THEN <<>> ELSE SubSeq(mtxt, dot + 1, Len(mtxt))
        mOk    == /\ ipart = <<>> \/ IsDigitRun(ipart)
                  /\ fpart = <<>> \/ IsDigitRun(fpart)
                  /\ ipart # <<>> \/ fpart # <<>>
        mant   == NatOf(DigitsOnly(ipart) \o DigitsOnly(fpart))
        e10    == eVal - Len(DigitsOnly(fpart))
    IN  IF low \in {<<"i", "n", "f">>, <<"i", "n", "f", "i", "n", "i", "t", "y">>}
            THEN Float(neg, "inf", 0)
        ELSE IF low = <<"n", "a", "n">> THEN Float(neg, "nan", 0)
        ELSE IF ~(mOk /\ eOk) THEN None
        ELSE IF e10 >= 0 THEN Normalize(neg, mant * Pow10(e10), 0)
        ELSE Normalize(neg, mant, 0 - e10)

\* re.sub(r"(?<=\d)[.,](?=\d{3}(\D|$))", "", s)
IsThousandsSep(s, i) ==
    /\ s[i] \in {".", ","}
    /\ i > 1 /\ s[i - 1] \in Digits
    /\ i + 3 <= Len(s)
    /\ \A j \in (i + 1)..(i + 3) : s[j] \in Digits
    /\ i + 3 = Len(s) \/ s[i + 4] \notin Digits

RECURSIVE KeepFrom(_, _)
KeepFrom(s, i) ==
    IF i > Len(s) THEN <<>>
    ELSE (IF IsThousandsSep(s, i) THEN <<>> ELSE <<s[i]>>) \o KeepFrom(s, i + 1)

\* a parser that deletes no separator
RemoveNothing(s) == s

RemoveThousands(s) == KeepFrom(s, 1)

parse_amount_eur(raw) ==
    IF ~Truthy(raw) THEN None
    ELSE LET t1 == Strip(raw)
             t2 == Replace(Replace(Replace(t1, <<"EUR">>, <<>>), <<"NBSP">>, <<>>), <<" ">>, <<>>)
             t3 == Replace(t2, <<",">>, <<".">>)
             t4 == RemoveThousands(t3)
         IN  ParseFloat(t4)

\* Days of a month of the Gregorian calendar.
DaysIn(y, m) ==
    IF m \in {4, 6, 9, 11} THEN 30
    ELSE IF m = 2 THEN (IF (y % 4 = 0 /\ y % 100 # 0) \/ y % 400 = 0 THEN 29 ELSE 28)
    ELSE 31

Pad2(n) == <<ToString(n \div 10), ToString(n % 10)>>

Pad4(n) == <<ToString(n \div 1000), ToString((n \div 100) % 10),
             ToString((n \div 10) % 10), ToString(n % 10)>>

\* dateutil's parse(text, dayfirst=...).date().isoformat() on the texts the
\* registry shows: two numbers and a four-digit year separated by "/", "-" or
\* ".".  With dayfirst the first number is the day, else the month; when that
\* gives no valid date and the other order does, dateutil takes the other
\* order.  Any other text of the model (words, the empty text) makes dateutil
\* raise.
DateutilParse(text, dayfirst) ==
    LET t   == Strip(text)
        isSep(c) == c \in {"/", "-", "."}
        p1  == IF \E i \in 1..Len(t) : isSep(t[i])
               THEN CHOOSE i \in 1..Len(t) : isSep(t[i]) /\ \A j \in 1..(i - 1) : ~isSep(t[j])
               ELSE 0
        r1  == IF p1 = 0 THEN <<>> ELSE SubSeq(t, p1 + 1, Len(t))
        p2  == IF \E i \in 1..Len(r1) : isSep(r1[i])
               THEN CHOOSE i \in 1..Len(r1) : isSep(r1[i]) /\ \A j \in 1..(i - 1) : ~isSep(r1[j])
               ELSE 0
        a   == IF p1 = 0 THEN <<>> ELSE SubSeq(t, 1, p1 - 1)
        b   == IF p2 = 0 THEN <<>> ELSE SubSeq(r1, 1, p2 - 1)
        c   == IF p2 = 0 THEN <<>> ELSE SubSeq(r1, p2 + 1, Len(r1))
        allDigits(s) == \A i \in 1..Len(s) : s[i] \in Digits
        shape == /\ p1 # 0 /\ p2 # 0
                 /\ Len(a) \in {1, 2} /\ Len(b) \in {1, 2} /\ Len(c) = 4
                 /\ allDigits(a) /\ allDigits(b) /\ allDigits(c)
        x   == IF dayfirst THEN NatOf(a) ELSE NatOf(b)
        y   == IF dayfirst THEN NatOf(b) ELSE NatOf(a)
        yr  == NatOf(c)
        valid(d, m) == yr >= 1 /\ m \in 1..12 /\ d >= 1 /\ d <= DaysIn(yr, m)
        iso(d, m) == Pad4(yr) \o <<"-">> \o Pad2(m) \o <<"-">> \o Pad2(d)
    IN  IF ~shape THEN None
        ELSE IF valid(x, y) THEN iso(x, y)
        ELSE IF valid(y, x) THEN iso(y, x)
        ELSE None

\* a date reader that takes the month first
parse_date_monthfirst(raw) == IF ~Truthy(raw) THEN None ELSE DateutilParse(raw, FALSE)

\* a date reader that hands an unreadable text on
parse_date_keeps_text(raw) ==
    IF ~Truthy(raw) THEN None
    ELSE IF DateutilParse(raw, TRUE) = None THEN raw ELSE DateutilParse(raw, TRUE)

parse_date(raw) == IF ~Truthy(raw) THEN None ELSE DateutilParse(raw, TRUE)

absolute_url(href) ==
    IF ~Truthy(href) THEN None
    ELSE LET h == Strip(href)
         IN  IF StartsWith(h, <<"h", "t", "t", "p">>) THEN h
             ELSE RStripSet(BASE_URL, {"/"}) \o <<"/">> \o LStripSet(h, {"/"})

(***************************************************************************)
(* The rendered document.  Rows and detail panels are document nodes named *)
(* by their position in RowTab and PanelTab; a node of the live row        *)
(* sequence is [kind, id].  A primary row is collapsed when its page is    *)
(* rendered; a successful click on its first cell inserts its detail row   *)
(* (class "child") right after it.                                         *)
(***************************************************************************)

Cell(text, href) == [text |-> text, href |-> href]

\* The header row of the registry's table.
HStd == << <<"V", "i", "e", "w">>, <<"E", "T", "I", "d">>, <<"C", "o", "u", "n", "t", "r", "y">>, <<"D", "a", "t", "e", " ", "o", "f", " ", "d", "e", "c", "i", "s", "i", "o", "n">>, <<"F", "i", "n", "e", " ", "[", "EUR", "]">>,
           <<"C", "o", "n", "t", "r", "o", "l", "l", "e", "r", "/", "p", "r", "o", "c", "e", "s", "s", "o", "r">>, <<"Q", "u", "o", "t", "e", "d", " ", "A", "r", "t", ".">>, <<"T", "y", "p", "e">>, <<"S", "o", "u", "r", "c", "e">> >>

\* The same table without the expand column, fine before date.
HAlt == << <<"E", "T", "I", "d">>, <<"C", "o", "u", "n", "t", "r", "y">>, <<"F", "i", "n", "e", " ", "[", "EUR", "]">>, <<"D", "a", "t", "e", " ", "o", "f", " ", "d", "e", "c", "i", "s", "i", "o", "n">>,
           <<"C", "o", "n", "t", "r", "o", "l", "l", "e", "r", "/", "p", "r", "o", "c", "e", "s", "s", "o", "r">>, <<"Q", "u", "o", "t", "e", "d", " ", "A", "r", "t", ".">>, <<"T", "y", "p", "e">>, <<"S", "o", "u", "r", "c", "e">> >>

RowTab == <<
    \* 1: a full row under HStd, with a detail panel
    [cls |-> <<"o", "d", "d">>, kid |-> 1,
     cells |-> << Cell(<<>>, None), Cell(<<"D", "E", "-", "0", "0", "1">>, None), Cell(<<"G", "e", "r", "m", "a", "n", "y">>, None),
                  Cell(<<"0", "3", "/", "0", "2", "/", "2", "0", "2", "2">>, None), Cell(<<"1", "0", ".", "0", "0", "0", " ", "EUR">>, None),
                  Cell(<<"A", "c", "m", "e", " ", "G", "m", "b", "H">>, None), Cell(<<"A", "r", "t", ".", " ", "5">>, None),
                  Cell(<<"C", "o", "n", "t", "r", "o", "l", "l", "e", "r">>, None), Cell(<<"h", "t", "t", "p", ":", "/", "/", "s", "r", "c">>, <<"h", "t", "t", "p", ":", "/", "/", "s", "r", "c">>) >>],
    \* 2: the same key again, other country, nothing else, no detail panel
    [cls |-> <<"e", "v", "e", "n">>, kid |-> 0,
     cells |-> << Cell(<<>>, None), Cell(<<"D", "E", "-", "0", "0", "1">>, None), Cell(<<"A", "u", "s", "t", "r", "i", "a">>, None),
                  Cell(<<>>, None), Cell(<<>>, None), Cell(<<>>, None), Cell(<<>>, None),
                  Cell(<<>>, None), Cell(<<>>, None) >>],
    \* 3: a row without cells
    [cls |-> <<"g", "r", "o", "u", "p">>, kid |-> 0, cells |-> << >>],
    \* 4: under HAlt, the key of row 1 with unparseable fine and date
    [cls |-> <<"o", "d", "d">>, kid |-> 0,
     cells |-> << Cell(<<"D", "E", "-", "0", "0", "1">>, None), Cell(<<"F", "r", "a", "n", "c", "e">>, None), Cell(<<"n", "/", "a">>, None),
                  Cell(<<"g", "a", "r", "b", "a", "g", "e">>, None), Cell(<<>>, None), Cell(<<>>, None),
                  Cell(<<>>, None), Cell(<<>>, None) >>],
    \* 5: under HAlt, a row the responsive layout cut to two cells; the rest
    \*    is in its detail panel
    [cls |-> <<"e", "v", "e", "n">>, kid |-> 2,
     cells |-> << Cell(<<" ", "F", "R", "-", "0", "0", "2">>, None), Cell(<<" ">>, None) >>],
    \* 6: under HStd, decimal comma and thousands point, relative source link
    [cls |-> <<"o", "d", "d">>, kid |-> 0,
     cells |-> << Cell(<<>>, None), Cell(<<"I", "T", "-", "0", "0", "3">>, None), Cell(<<"I", "t", "a", "l", "y">>, None),
                  Cell(<<"0", "5", "/", "0", "3", "/", "2", "0", "2", "1">>, None), Cell(<<"1", ".", "2", "3", "4", ",", "5", "6", " ", "EUR">>, None),
                  Cell(<<>>, None), Cell(<<>>, None), Cell(<<>>, None),
                  Cell(<<"l", "i", "n", "k">>, <<"/", "s", "r", "c", "/", "3">>) >>],
    \* 7: the key of row 6 again, other country
    [cls |-> <<"e", "v", "e", "n">>, kid |-> 0,
     cells |-> << Cell(<<>>, None), Cell(<<"I", "T", "-", "0", "0", "3">>, None), Cell(<<"S", "p", "a", "i", "n">>, None),
                  Cell(<<>>, None), Cell(<<>>, None), Cell(<<>>, None), Cell(<<>>, None),
                  Cell(<<>>, None), Cell(<<>>, None) >>]
>>

PanelTab == <<
    \* 1: free text only
    [titles |-> << >>, datas |-> << >>, anchors |-> << >>,
     text |-> <<"A", "u", "t", "h", "o", "r", "i", "t", "y", ":", " ", "L", "D", "A", "\n", "S", "e", "c", "t", "o", "r", ":", " ", "R", "e", "t", "a", "i", "l", "\n", "S", "u", "m", "m", "a", "r", "y", ":", " ", "M", "i", "s", "u", "s", "e", " ", "o", "f", " ", "d", "a", "t", "a">>],
    \* 2: the responsive layout's label/value list, free text and links
    [titles |-> << <<"C", "o", "u", "n", "t", "r", "y">>, <<"F", "i", "n", "e", " ", "EUR">>, <<"D", "a", "t", "e", " ", " ", "o", "f", " ", "d", "e", "c", "i", "s", "i", "o", "n">>,
                   <<"C", "o", "n", "t", "r", "o", "l", "l", "e", "r", " ", "/", " ", "P", "r", "o", "c", "e", "s", "s", "o", "r">>, <<"T", "y", "p", "e">>, <<"D", "i", "r", "e", "c", "t", " ", "U", "R", "L">>, <<>> >>,
     datas  |-> << <<"F", "r", "a", "n", "c", "e", " ">>, <<"-", "5">>, <<"1", "2", "/", "2", "5", "/", "2", "0", "2", "1">>, <<"F", "o", "o", " ", "S", "A">>, <<"P", "r", "o", "c", "e", "s", "s", "o", "r">>,
                   <<"/", "e", "t", "i", "d", "-", "2">> >>,
     anchors |-> << <<"h", "t", "t", "p", "s", ":", "/", "/", "c", "n", "i", "l", ".", "f", "r", "/", "x">>, <<"/", "E", "T", "i", "d", "-", "2">> >>,
     text |-> <<"S", "u", "m", "m", "a", "r", "y", ":", " ", "C", "o", "o", "k", "i", "e", "s", "\n", " ", "A", "u", "t", "h", "o", "r", "i", "t", "y", " ", ":", " ", "C", "N", "I", "L">>]
>>

PageTab == <<
    [headers |-> HStd, rows |-> <<1>>,       next |-> {}],
    [headers |-> HAlt, rows |-> <<4, 5>>,    next |-> {1, 2}],
    [headers |-> HStd, rows |-> <<1, 2>>,    next |-> {2}],
    [headers |-> HStd, rows |-> <<6, 7, 3>>, next |-> {1}]
>>

\* What the site may hold during one run: a sequence of pages.
RegTab == << <<1>>, <<2, 3, 4>> >>

Node(kind, id) == [kind |-> kind, id |-> id]

NoNode == Node("none", 0)

\* tr.get_attribute("class")
ClassOf(n) == IF n.kind = "child" THEN <<"c", "h", "i", "l", "d">> ELSE RowTab[n.id].cls

\* tr.locator("td"): a detail row holds its panel in one cell
CellsOf(n) == IF n.kind = "child" THEN << Cell(PanelTab[n.id].text, None) >>
              ELSE RowTab[n.id].cells

RECURSIVE JoinCells(_)
JoinCells(cs) == IF cs = <<>> THEN <<>>
                 ELSE IF Len(cs) = 1 THEN cs[1].text
                 ELSE cs[1].text \o <<"\t">> \o JoinCells(Tail(cs))

\* tr.inner_text()
InnerText(n) == JoinCells(CellsOf(n))

RECURSIVE RowNodes(_)
RowNodes(ids) == IF ids = <<>> THEN <<>> ELSE <<Node("row", Head(ids))>> \o RowNodes(Tail(ids))

\* The row sequence of a freshly rendered page.
Rendered(p) == RowNodes(PageTab[p].rows)

\* The row sequence with the detail row of the row at position i (1-based) inserted.
WithDetail(d, i) ==
    SubSeq(d, 1, i) \o << Node("child", RowTab[d[i].id].kid) >> \o SubSeq(d, i + 1, Len(d))

\* "child" in (tr.get_attribute("class") or "").lower()
IsDetailRow(n) == Contains(Lower(ClassOf(n)), <<"c", "h", "i", "l", "d">>)

(***************************************************************************)
(* Detail-row extraction: norm_label, extract_child_kv,                    *)
(* extract_child_freeform.  A detail row is given by its panel (0: none).  *)
(***************************************************************************)

norm_label(s) ==
    CollapseWs(Replace(Replace(Lower(Strip(s)), <<"EUR">>, <<"e">>),
                       <<"c", "o", "n", "t", "r", "o", "l", "l", "e", "r", " ", "/", " ", "p", "r", "o", "c", "e", "s", "s", "o", "r">>, <<"c", "o", "n", "t", "r", "o", "l", "l", "e", "r", "/", "p", "r", "o", "c", "e", "s", "s", "o", "r">>))

\* dict.get(k)
Get(kv, k) == IF k \in DOMAIN kv THEN kv[k] ELSE None

RECURSIVE KvFold(_, _, _, _)
\* the loop of extract_child_kv from pair i on; a later label replaces an equal earlier one
KvFold(titles, datas, i, kv) ==
    IF i > Len(titles) \/ i > Len(datas) THEN kv
    ELSE LET key == norm_label(titles[i])
             val == Strip(datas[i])
         IN  KvFold(titles, datas, i + 1, IF key # <<>> THEN (key :> val) @@ kv ELSE kv)

extract_child_kv(panel) ==
    IF panel = 0 THEN <<>> ELSE KvFold(PanelTab[panel].titles, PanelTab[panel].datas, 1, <<>>)

NoDetail == [authority |-> <<>>, sector |-> <<>>, summary |-> <<>>,
             direct_url |-> None, source_url |-> None]

RECURSIVE LinesFold(_, _)
LinesFold(lines, out) ==
    IF lines = <<>> THEN out
    ELSE LET s == Strip(Head(lines))
             rest(word) == StripSet(AfterFirst(s, word), {" ", ":"})
         IN  LinesFold(Tail(lines),
                 IF StartsWith(s, <<"A", "u", "t", "h", "o", "r", "i", "t", "y">>)
                     THEN [out EXCEPT !.authority = rest(<<"A", "u", "t", "h", "o", "r", "i", "t", "y">>)]
                 ELSE IF StartsWith(s, <<"S", "e", "c", "t", "o", "r">>)
                     THEN [out EXCEPT !.sector = rest(<<"S", "e", "c", "t", "o", "r">>)]
                 ELSE IF StartsWith(s, <<"S", "u", "m", "m", "a", "r", "y">>)
                     THEN [out EXCEPT !.summary = rest(<<"S", "u", "m", "m", "a", "r", "y">>)]
                 ELSE out)

\* The extractor reads at most this many links of a panel.
MaxAnchors == 10

RECURSIVE AnchorsFold(_, _, _)
AnchorsFold(anchors, i, out) ==
    IF i > Len(anchors) \/ i > MaxAnchors THEN out
    ELSE LET full == absolute_url(anchors[i])
             o1   == IF Truthy(full) /\ Contains(Lower(full), <<"/", "e", "t", "i", "d", "-">>)
                     THEN [out EXCEPT !.direct_url = full] ELSE out
             o2   == IF Truthy(full) /\ ~Truthy(o1.source_url)
                     THEN [o1 EXCEPT !.source_url = full] ELSE o1
         IN  AnchorsFold(anchors, i + 1, o2)

extract_child_freeform(panel) ==
    IF panel = 0 THEN NoDetail
    ELSE AnchorsFold(PanelTab[panel].anchors, 1,
                     LinesFold(SplitLines(PanelTab[panel].text), NoDetail))

(***************************************************************************)
(* Header resolver: build_header_map.  Columns are counted from 0.         *)
(***************************************************************************)

KeyOrder == <<"etid", "country", "date", "fine", "controller", "quoted", "type", "source">>

Keys == {KeyOrder[i] : i \in 1..Len(KeyOrder)}

Patterns(key) ==
    CASE key = "etid"       -> << <<"e", "t", "i", "d">> >>
      [] key = "country"    -> << <<"c", "o", "u", "n", "t", "r", "y">> >>
      [] key = "date"       -> << <<"d", "a", "t", "e", " ", "o", "f", " ", "d", "e", "c", "i", "s", "i", "o", "n">>, <<"d", "e", "c", "i", "s", "i", "o", "n", " ", "d", "a", "t", "e">>, <<"d", "a", "t", "e">> >>
      [] key = "fine"       -> << <<"f", "i", "n", "e">> >>
      [] key = "controller" -> << <<"c", "o", "n", "t", "r", "o", "l", "l", "e", "r">>, <<"p", "r", "o", "c", "e", "s", "s", "o", "r">>, <<"c", "o", "n", "t", "r", "o", "l", "l", "e", "r", "/", "p", "r", "o", "c", "e", "s", "s", "o", "r">> >>
      [] key = "quoted"     -> << <<"q", "u", "o", "t", "e", "d", " ", "a", "r", "t">>, <<"a", "r", "t", "i", "c", "l", "e">> >>
      [] key = "type"       -> << <<"t", "y", "p", "e">> >>
      [] key = "source"     -> << <<"s", "o", "u", "r", "c", "e">> >>

\* header_map's None
NoCol == -1

\* the text of one <th> as the resolver compares it
HeaderLabel(txt) == CollapseWs(Replace(Lower(Strip(txt)), <<"EUR">>, <<"e">>))

\* any(pat in lab for pat in patterns)
Matches(lab, key) == \E j \in 1..Len(Patterns(key)) : Contains(lab, Patterns(key)[j])

\* the inner loop over keys with its break: the first key, in order, that the label matches
FirstKey(lab) ==
    IF \E k \in 1..Len(KeyOrder) : Matches(lab, KeyOrder[k])
    THEN KeyOrder[CHOOSE k \in 1..Len(KeyOrder) :
                     /\ Matches(lab, KeyOrder[k])
                     /\ \A j \in 1..(k - 1) : ~Matches(lab, KeyOrder[j])]
    ELSE "none"

RECURSIVE HeaderFoldFirst(_, _, _)
\* a resolver in which a key keeps the first header assigned to it
HeaderFoldFirst(labels, i, hm) ==
    IF i > Len(labels) THEN hm
    ELSE LET key == FirstKey(labels[i])
         IN  HeaderFoldFirst(labels, i + 1,
                             IF key = "none" \/ hm[key] # NoCol THEN hm
                             ELSE [hm EXCEPT ![key] = i - 1])

RECURSIVE HeaderFold(_, _, _)
\* the outer loop over the labels from position i (1-based) on
HeaderFold(labels, i, hm) ==
    IF i > Len(labels) THEN hm
    ELSE LET key == FirstKey(labels[i])
         IN  HeaderFold(labels, i + 1,
                        IF key = "none" THEN hm ELSE [hm EXCEPT ![key] = i - 1])

RECURSIVE HeaderLabels(_)
\* the labels of the header cells, in document order
HeaderLabels(ths) ==
    IF ths = <<>> THEN <<>> ELSE <<HeaderLabel(Head(ths))>> \o HeaderLabels(Tail(ths))

build_header_map(ths) == HeaderFold(HeaderLabels(ths), 1, [k \in Keys |-> NoCol])

(***************************************************************************)
(* Record assembler: the body of the row loop of run() from the reading of *)
(* the detail row to the record.                                           *)
(***************************************************************************)

\* a cell reader that does not trim
safe_text_untrimmed(hm, cells, key) ==
    IF hm[key] = NoCol \/ hm[key] >= Len(cells) THEN <<>>
    ELSE cells[hm[key] + 1].text

\* safe_text(header_key)
safe_text(hm, cells, key) ==
    IF hm[key] = NoCol \/ hm[key] >= Len(cells) THEN <<>>
    ELSE Strip(cells[hm[key] + 1].text)

\* safe_href(header_key)
safe_href(hm, cells, key) ==
    IF hm[key] = NoCol \/ hm[key] >= Len(cells) THEN None
    ELSE cells[hm[key] + 1].href

\* The raw texts of a primary row with its detail panel (0: none).
RawFields(hm, cells, panel) ==
    LET kv == extract_child_kv(panel)
    IN  [etid       |-> Or(Or(safe_text(hm, cells, "etid"), Get(kv, <<"e", "t", "i", "d">>)), <<>>),
         country    |-> Or(Or(safe_text(hm, cells, "country"), Get(kv, <<"c", "o", "u", "n", "t", "r", "y">>)), <<>>),
         date       |-> Or(Or(Or(safe_text(hm, cells, "date"), Get(kv, <<"d", "a", "t", "e", " ", "o", "f", " ", "d", "e", "c", "i", "s", "i", "o", "n">>)),
                              Get(kv, <<"d", "a", "t", "e">>)), <<>>),
         fine       |-> Or(Or(Or(Or(safe_text(hm, cells, "fine"), Get(kv, <<"f", "i", "n", "e", " ", "e">>)),
                                 Get(kv, <<"f", "i", "n", "e", " ", "EUR">>)), Get(kv, <<"f", "i", "n", "e">>)), <<>>),
         controller |-> Or(Or(safe_text(hm, cells, "controller"),
                              Get(kv, <<"c", "o", "n", "t", "r", "o", "l", "l", "e", "r", "/", "p", "r", "o", "c", "e", "s", "s", "o", "r">>)), <<>>),
         quoted     |-> Or(Or(Or(safe_text(hm, cells, "quoted"), Get(kv, <<"q", "u", "o", "t", "e", "d", " ", "a", "r", "t", ".">>)),
                              Get(kv, <<"q", "u", "o", "t", "e", "d", " ", "a", "r", "t">>)), <<>>),
         type       |-> Or(Or(safe_text(hm, cells, "type"), Get(kv, <<"t", "y", "p", "e">>)), <<>>),
         source     |-> Or(safe_href(hm, cells, "source"), Get(kv, <<"s", "o", "u", "r", "c", "e">>))]

\* The record of a primary row with its detail panel (0: none).
Assemble(hm, cells, panel) ==
    LET raw == RawFields(hm, cells, panel)
        kv  == extract_child_kv(panel)
        det == extract_child_freeform(panel)
    IN  [etid                    |-> raw.etid,
         country                 |-> raw.country,
         authority               |-> Or(det.authority, <<>>),
         decision_date           |-> parse_date(raw.date),
         amount_eur              |-> parse_amount_eur(raw.fine),
         controller_or_processor |-> raw.controller,
         quoted_articles         |-> raw.quoted,
         type                    |-> raw.type,
         summary                 |-> (IF Truthy(det.sector)
                                      THEN <<"S", "e", "c", "t", "o", "r", ":", " ">> \o det.sector \o <<".", " ">>
                                      ELSE <<>>) \o Or(det.summary, <<>>),
         source_url              |-> absolute_url(raw.source),
         direct_url              |-> Or(det.direct_url, absolute_url(Get(kv, <<"d", "i", "r", "e", "c", "t", " ", "u", "r", "l">>)))]

\* a filter that lets repeated keys through
AcceptsRepeated(seenKeys, rec) == Truthy(rec.etid)

\* `if etid_txt and etid_txt not in seen`
Accepts(seenKeys, rec) == Truthy(rec.etid) /\ rec.etid \notin seenKeys

(***************************************************************************)
(* The store: table fines, keyed by etid, and upsert_rows' statement.      *)
(***************************************************************************)

\* SQL COALESCE(a, b); NULL is None
Coalesce(a, b) == IF a # None THEN a ELSE b

\* a headline column that keeps the stored value
OverwriteKeepsStored(new, old) == old

\* `col=excluded.col`: the column takes the new record's value
Overwrite(new, old) == new

\* `col=COALESCE(excluded.col, fines.col)`
Enrich(new, old) == Coalesce(new, old)

\* the row a record r makes at time ts
NewRow(r, ts) ==
    [etid                    |-> r.etid,
     country                 |-> r.country,
     authority               |-> r.authority,
     decision_date           |-> r.decision_date,
     amount_eur              |-> r.amount_eur,
     controller_or_processor |-> r.controller_or_processor,
     quoted_articles         |-> r.quoted_articles,
     type                    |-> r.type,
     summary                 |-> r.summary,
     source_url              |-> r.source_url,
     direct_url              |-> r.direct_url,
     scraped_at              |-> ts]

\* INSERT ... ON CONFLICT(etid) DO UPDATE SET ... for one record r at time ts
Upsert(tbl, r, ts) ==
    IF r.etid \in DOMAIN tbl
    THEN LET old == tbl[r.etid]
             new == NewRow(r, ts)
         IN  [tbl EXCEPT ![r.etid] =
                 [etid                    |-> old.etid,
                  country                 |-> Overwrite(new.country, old.country),
                  authority               |-> Enrich(new.authority, old.authority),
                  decision_date           |-> Overwrite(new.decision_date, old.decision_date),
                  amount_eur              |-> Overwrite(new.amount_eur, old.amount_eur),
                  controller_or_processor |-> Overwrite(new.controller_or_processor,
                                                        old.controller_or_processor),
                  quoted_articles         |-> Overwrite(new.quoted_articles, old.quoted_articles),
                  type                    |-> Overwrite(new.type, old.type),
                  summary                 |-> Enrich(new.summary, old.summary),
                  source_url              |-> Enrich(new.source_url, old.source_url),
                  direct_url              |-> Enrich(new.direct_url, old.direct_url),
                  scraped_at              |-> Overwrite(new.scraped_at, old.scraped_at)]]
    ELSE (r.etid :> NewRow(r, ts)) @@ tbl

\* a close that keeps the writes made so far
CloseKeepsWrites(committed, working) == working

\* connect()'s `finally: con.close()` on a connection with uncommitted writes:
\* sqlite3 rolls the open transaction back, the table stays as committed.
CloseUncommitted(committed, working) == committed

(***************************************************************************)
(* The crawl: run(), step by step, over a store that outlives the runs.    *)
(***************************************************************************)

\* Runs of the crawler over the same store.
MaxRuns == 2

\* The largest page cap a run is started with (0: no cap).
MaxCap == 2

\* range(20): the polls for a changed first row after a next-page click
PollAttempts == 20

\* the candidate selectors of the next-page button, by position
NextSelectors == {1, 2}

VARIABLES
    store,        \* table fines as committed
    clock,        \* the time of day, as a count
    runs,         \* runs started
    pc,           \* where run() stands
    err,          \* the exception that ended the last run
    site,         \* the pages the site holds during this run (position in RegTab)
    cur,          \* the page the document shows (position in RegTab[site])
    pendingNav,   \* page changes requested by clicks and not yet rendered
    dom,          \* the live row sequence
    max_pages, header_map, page_index, seen, batch, idx, total, moved,
    selIdx,       \* the selector the next-page loop is at
    polls,        \* polls made after the last next-page click
    first_before,
    txn,          \* the table as the open connection of upsert_rows sees it
    scraped_at,   \* upsert_rows' timestamp
    upk,          \* the record upsert_rows' loop is at
    visited,      \* history: the primary rows processed on this page, in order
    seen0,        \* history: `seen` when this page's pass began
    nUpserts,     \* history: calls of upsert_rows in this run
    clicks,       \* history: next-page clicks in this pass of the next-page loop
    hdrIn, hdrOut, \* the header resolver alone: its input and its result
    amtIn, amtOut  \* the amount parser alone: its input and its result

vars == <<store, clock, runs, pc, err, site, cur, pendingNav, dom, max_pages, header_map,
          page_index, seen, batch, idx, total, moved, selIdx, polls, first_before, txn,
          scraped_at, upk, visited, seen0, nUpserts, clicks, hdrIn, hdrOut, amtIn, amtOut>>

hdrVars == <<hdrIn, hdrOut, amtIn, amtOut>>

\* what a run leaves alone whatever it does
keep == <<runs, hdrIn, hdrOut, amtIn, amtOut>>

NoMap == [k \in Keys |-> NoCol]

CurPage == RegTab[site][cur]

\* No run is under way: run()'s locals and the browser do not exist.
AtRest ==
    /\ site = 1 /\ cur = 1 /\ pendingNav = 0 /\ dom = <<>>
    /\ max_pages = 0 /\ header_map = NoMap /\ page_index = 0 /\ seen = {}
    /\ batch = <<>> /\ idx = 0 /\ total = 0 /\ moved = FALSE /\ selIdx = 1
    /\ polls = 0 /\ first_before = <<>> /\ txn = <<>> /\ scraped_at = 0 /\ upk = 1
    /\ visited = <<>> /\ seen0 = {} /\ nUpserts = 0 /\ clicks = 0

InitCrawl ==
    /\ store = <<>> /\ clock = 0 /\ runs = 0
    /\ pc = "Idle" /\ err = "none"
    /\ AtRest

Init == InitCrawl /\ hdrIn = <<>> /\ hdrOut = NoMap /\ amtIn = <<>> /\ amtOut = None

\* run() is left, by return (p = "Done") or by exception e (p = "Failed"):
\* the browser is closed and the locals are gone.
Leave(p, e) ==
    /\ pc' = p /\ err' = e
    /\ site' = 1 /\ cur' = 1 /\ pendingNav' = 0 /\ dom' = <<>>
    /\ max_pages' = 0 /\ header_map' = NoMap /\ page_index' = 0 /\ seen' = {}
    /\ batch' = <<>> /\ idx' = 0 /\ total' = 0 /\ moved' = FALSE /\ selIdx' = 1
    /\ polls' = 0 /\ first_before' = <<>> /\ txn' = <<>> /\ scraped_at' = 0 /\ upk' = 1
    /\ visited' = <<>> /\ seen0' = {} /\ nUpserts' = 0 /\ clicks' = 0
    /\ UNCHANGED <<clock, keep>>

\* a page loop that forgets the keys of earlier pages
SeenPerPage(s) == {}

\* `seen` as the page loop finds it at the top of an iteration: it is created
\* once, before the loop, and never reset.
SeenAtPageStart(s) == s

\* the top of the page loop
BeginPage ==
    /\ page_index' = page_index + 1
    /\ batch' = <<>>
    /\ idx' = 0
    /\ seen' = SeenAtPageStart(seen)
    /\ seen0' = seen
    /\ visited' = <<>>
    /\ pc' = "Extracting"

\* run() up to the wait for the table
StartRun(r, cap) ==
    /\ pc \in {"Idle", "Done", "Failed"}
    /\ runs < MaxRuns
    /\ runs' = runs + 1
    /\ site' = r /\ cur' = 1 /\ dom' = Rendered(RegTab[r][1])
    /\ max_pages' = cap
    /\ pc' = "Loading" /\ err' = "none"
    /\ UNCHANGED <<store, clock, pendingNav, header_map, page_index, seen, batch, idx,
                   total, moved, selIdx, polls, first_before, txn, scraped_at, upk,
                   visited, seen0, nUpserts, clicks, hdrVars>>

\* a run that returns quietly when no rows are detected
NoRowsSwallowed == [pc |-> "Done", err |-> "none"]

\* `raise RuntimeError("No table rows detected.")`, which run() does not catch
NoRowsError == [pc |-> "Failed", err |-> "RuntimeError"]

\* wait_for_table_selector: none of the selectors resolves in time
LoadTimeout ==
    /\ pc = "Loading"
    /\ Leave(NoRowsError.pc, NoRowsError.err)
    /\ UNCHANGED store

\* wait_for_table_selector resolves; the first header map; into the page loop
LoadReady ==
    /\ pc = "Loading"
    /\ Len(dom) > 0
    /\ header_map' = build_header_map(PageTab[CurPage].headers)
    /\ BeginPage
    /\ UNCHANGED <<store, clock, err, site, cur, pendingNav, dom, max_pages, total, moved,
                   selIdx, polls, first_before, txn, scraped_at, upk, nUpserts, clicks,
                   keep>>

rowVars == <<store, clock, pc, err, site, cur, pendingNav, max_pages, header_map,
             page_index, total, moved, selIdx, polls, first_before, txn, scraped_at, upk,
             seen0, nUpserts, clicks, keep>>

\* a row with "child" in its class
SkipDetailRow ==
    /\ pc = "Extracting"
    /\ idx < Len(dom)
    /\ IsDetailRow(dom[idx + 1])
    /\ idx' = idx + 1
    /\ UNCHANGED <<dom, seen, batch, visited, rowVars>>

\* a primary row without cells
SkipEmptyRow ==
    /\ pc = "Extracting"
    /\ idx < Len(dom)
    /\ ~IsDetailRow(dom[idx + 1])
    /\ Len(CellsOf(dom[idx + 1])) = 0
    /\ idx' = idx + 1
    /\ UNCHANGED <<dom, seen, batch, visited, rowVars>>

\* What the click on a row's first cell may do: raise ("fail"), show the
\* detail row before the rows are read again ("shown"), show it only after
\* ("late"), or show nothing because the row has no detail ("plain").
Outcomes(n) == IF RowTab[n.id].kid = 0 THEN {"fail", "plain"} ELSE {"fail", "shown", "late"}

\* the detail panel paired with the row at cursor i in row sequence d (0: none)
PairedPanel(d, i) ==
    IF i + 1 < Len(d) /\ IsDetailRow(d[i + 2]) THEN d[i + 2].id ELSE 0

\* a cursor that steps over the primary row only
StepOne(panel) == 1

\* `step`: 2 with a paired detail row, else 1
Step(panel) == IF panel = 0 THEN 1 ELSE 2

\* an expand click whose exception leaves run()
ExpandErrorEscapes == FALSE

\* `except Exception: pass` around the expand click
ExpandErrorCaught == TRUE

\* one primary row: expand, read the rows again, pair, assemble, dedup, step
ProcessRow(outcome) ==
    /\ pc = "Extracting"
    /\ idx < Len(dom)
    /\ ~IsDetailRow(dom[idx + 1])
    /\ Len(CellsOf(dom[idx + 1])) > 0
    /\ outcome \in Outcomes(dom[idx + 1])
    /\ IF outcome = "fail" /\ ~ExpandErrorCaught
       THEN Leave("Failed", "playwright.Error") /\ UNCHANGED store
       ELSE /\ LET tr    == dom[idx + 1]
                   read  == IF outcome = "shown" THEN WithDetail(dom, idx + 1) ELSE dom
                   panel == PairedPanel(read, idx)
                   rec   == Assemble(header_map, CellsOf(tr), panel)
                   raw   == RawFields(header_map, CellsOf(tr), panel)
               IN  /\ dom' = IF outcome = "late" THEN WithDetail(dom, idx + 1) ELSE read
                   /\ idx' = idx + Step(panel)
                   /\ IF Accepts(seen, rec)
                      THEN seen' = seen \cup {rec.etid} /\ batch' = Append(batch, rec)
                      ELSE UNCHANGED <<seen, batch>>
                   /\ visited' = Append(visited,
                                        [row |-> tr.id, panel |-> panel, at |-> idx,
                                         how |-> outcome, read |-> read, page |-> CurPage,
                                         raw |-> raw, rec |-> rec])
            /\ UNCHANGED rowVars

\* a page loop that goes on to the next page with its batch in hand
HandsOverNever(b) == FALSE

\* `if batch:`
HandsOver(b) == b # <<>>

\* the cursor is past the last row: the batch goes to upsert_rows, if there is one
EndOfRows ==
    /\ pc = "Extracting"
    /\ idx >= Len(dom)
    /\ IF HandsOver(batch)
       THEN /\ pc' = "Upserting"
            /\ clock' = clock + 1
            /\ scraped_at' = clock + 1
            /\ txn' = store
            /\ upk' = 1
            /\ nUpserts' = nUpserts + 1
       ELSE /\ pc' = "Advancing"
            /\ UNCHANGED <<clock, scraped_at, txn, upk, nUpserts>>
    /\ UNCHANGED <<store, err, site, cur, pendingNav, dom, max_pages, header_map,
                   page_index, seen, batch, idx, total, moved, selIdx, polls, first_before,
                   visited, seen0, clicks, keep>>

upVars == <<clock, err, site, cur, pendingNav, dom, max_pages, header_map, page_index,
            seen, batch, idx, moved, selIdx, polls, first_before, visited, seen0,
            nUpserts, clicks, keep>>

\* con.execute for one record of the batch
UpsertExec ==
    /\ pc = "Upserting"
    /\ upk <= Len(batch)
    /\ txn' = Upsert(txn, batch[upk], scraped_at)
    /\ upk' = upk + 1
    /\ UNCHANGED <<store, pc, total, scraped_at, upVars>>

\* a run whose page loop breaks on an error of upsert_rows and returns
UpsertErrorSwallowed == [pc |-> "Done", err |-> "none"]

\* what an exception of upsert_rows does to run(): nothing catches it
UpsertError == [pc |-> "Failed", err |-> "sqlite3.Error"]

\* con.execute or con.commit raises: the connection is closed uncommitted
UpsertFail ==
    /\ pc = "Upserting"
    /\ store' = CloseUncommitted(store, txn)
    /\ Leave(UpsertError.pc, UpsertError.err)

\* con.commit, the connection is closed, back in run()
UpsertCommit ==
    /\ pc = "Upserting"
    /\ upk > Len(batch)
    /\ store' = txn
    /\ txn' = <<>> /\ scraped_at' = 0 /\ upk' = 1
    /\ total' = total + Len(batch)
    /\ pc' = "Advancing"
    /\ UNCHANGED upVars

advVars == <<store, clock, site, max_pages, page_index, seen, batch, idx, total, txn,
             scraped_at, upk, visited, seen0, nUpserts, keep>>

\* the button of selector selIdx is not there or not visible
NextAbsent ==
    /\ pc = "Advancing" /\ ~moved
    /\ selIdx \in NextSelectors
    /\ selIdx \notin PageTab[CurPage].next
    /\ selIdx' = selIdx + 1
    /\ UNCHANGED <<pc, err, cur, pendingNav, dom, header_map, moved, polls, first_before,
                   clicks, advVars>>

\* the button is visible: the first row's text is kept and the button clicked
NextClick ==
    /\ pc = "Advancing" /\ ~moved
    /\ selIdx \in NextSelectors
    /\ selIdx \in PageTab[CurPage].next
    /\ first_before' = IF Len(dom) > 0 THEN InnerText(dom[1]) ELSE <<>>
    /\ pendingNav' = IF cur + pendingNav < Len(RegTab[site]) THEN pendingNav + 1
                     ELSE pendingNav
    /\ polls' = 0
    /\ clicks' = clicks + 1
    /\ pc' = "Polling"
    /\ UNCHANGED <<err, cur, dom, header_map, moved, selIdx, advVars>>

\* the click raises
NextClickFail ==
    /\ pc = "Advancing" /\ ~moved
    /\ selIdx \in NextSelectors
    /\ selIdx \in PageTab[CurPage].next
    /\ Leave("Failed", "playwright.Error")
    /\ UNCHANGED store

\* the site renders the page the clicks asked for
Render ==
    /\ pc \in {"Advancing", "Polling"}
    /\ pendingNav > 0
    /\ cur' = cur + pendingNav
    /\ dom' = Rendered(RegTab[site][cur + pendingNav])
    /\ pendingNav' = 0
    /\ UNCHANGED <<pc, err, header_map, moved, selIdx, polls, first_before, clicks, advVars>>

\* one poll: no rows, or the first row's text as before the click
PollSame ==
    /\ pc = "Polling"
    /\ polls < PollAttempts
    /\ Len(dom) = 0 \/ InnerText(dom[1]) = first_before
    /\ polls' = polls + 1
    /\ UNCHANGED <<pc, err, cur, pendingNav, dom, header_map, moved, selIdx, first_before,
                   clicks, advVars>>

\* one poll: the first row's text differs; new header map, out of both loops
PollChanged ==
    /\ pc = "Polling"
    /\ polls < PollAttempts
    /\ Len(dom) > 0 /\ InnerText(dom[1]) # first_before
    /\ header_map' = build_header_map(PageTab[CurPage].headers)
    /\ moved' = TRUE
    /\ polls' = 0 /\ first_before' = <<>>
    /\ pc' = "Advancing"
    /\ UNCHANGED <<err, cur, pendingNav, dom, selIdx, clicks, advVars>>

\* the polls are used up: on to the next selector
PollGiveUp ==
    /\ pc = "Polling"
    /\ polls = PollAttempts
    /\ pc' = "Advancing"
    /\ selIdx' = selIdx + 1
    /\ polls' = 0 /\ first_before' = <<>>
    /\ UNCHANGED <<err, cur, pendingNav, dom, header_map, moved, clicks, advVars>>

\* a loop that ends at the cap only
StopsAtCapOnly(mv, cap, n) == cap # 0 /\ n >= cap

\* a loop that takes one page more than the cap
StopsPastCap(mv, cap, n) == ~mv \/ (cap # 0 /\ n > cap)

\* `if not moved or (max_pages and page_index >= max_pages): break`
StopsAfterPage(mv, cap, n) == ~mv \/ (cap # 0 /\ n >= cap)

\* the end of the page loop's body: leave the loop and return, or go round again
AdvanceDecide ==
    /\ pc = "Advancing"
    /\ moved \/ selIdx \notin NextSelectors
    /\ IF StopsAfterPage(moved, max_pages, page_index)
       THEN /\ Leave("Done", "none")
            /\ UNCHANGED store
       ELSE /\ BeginPage
            /\ moved' = FALSE /\ selIdx' = 1 /\ clicks' = 0
            /\ UNCHANGED <<store, clock, err, site, cur, pendingNav, dom, max_pages,
                           header_map, total, polls, first_before, txn, scraped_at, upk,
                           nUpserts, keep>>

Next ==
    \/ \E r \in 1..Len(RegTab), cap \in 0..MaxCap : StartRun(r, cap)
    \/ LoadTimeout
    \/ LoadReady
    \/ SkipDetailRow
    \/ SkipEmptyRow
    \/ \E o \in {"fail", "plain", "shown", "late"} : ProcessRow(o)
    \/ EndOfRows
    \/ UpsertExec
    \/ UpsertFail
    \/ UpsertCommit
    \/ NextAbsent
    \/ NextClick
    \/ NextClickFail
    \/ Render
    \/ PollSame
    \/ PollChanged
    \/ PollGiveUp
    \/ AdvanceDecide

Spec == Init /\ [][Next]_vars

(***************************************************************************)
(* The header resolver alone, over the header rows of up to MaxHeaders     *)
(* cells drawn from HeaderPool.                                            *)
(***************************************************************************)

\* The longest header row resolved.
MaxHeaders == 3

HeaderPool == { <<"V", "i", "e", "w">>, <<"E", "T", "I", "d">>, <<"D", "a", "t", "e">>, <<"D", "a", "t", "e", " ", "o", "f", " ", " ", "D", "e", "c", "i", "s", "i", "o", "n", " ">>, <<"F", "i", "n", "e", " ", "[", "EUR", "]">>,
                <<"T", "y", "p", "e", " ", "o", "f", " ", "s", "o", "u", "r", "c", "e">>, <<"S", "o", "u", "r", "c", "e">> }

RECURSIVE SeqsUpTo(_, _)
SeqsUpTo(S, n) ==
    IF n = 0 THEN {<<>>}
    ELSE SeqsUpTo(S, n - 1) \cup {Append(q, x) : q \in SeqsUpTo(S, n - 1), x \in S}

HeaderInit ==
    /\ InitCrawl /\ hdrIn \in SeqsUpTo(HeaderPool, MaxHeaders) /\ hdrOut = NoMap
    /\ amtIn = <<>> /\ amtOut = None

ResolveHeader ==
    /\ pc = "Idle"
    /\ pc' = "Resolved"
    /\ hdrOut' = build_header_map(hdrIn)
    /\ UNCHANGED <<store, clock, runs, err, site, cur, pendingNav, dom, max_pages,
                   header_map, page_index, seen, batch, idx, total, moved, selIdx, polls,
                   first_before, txn, scraped_at, upk, visited, seen0, nUpserts, clicks,
                   hdrIn, amtIn, amtOut>>

HeaderNext == ResolveHeader

HeaderSpec == HeaderInit /\ [][HeaderNext]_vars

(***************************************************************************)
(* The amount parser alone, over the texts of up to MaxAmountLen           *)
(* characters of AmountChars and the texts of AmountTexts.                 *)
(***************************************************************************)

\* The longest text of AmountChars parsed.
MaxAmountLen == 5

AmountChars == {"1", ".", ",", "EUR", " ", "-"}

AmountTexts == { <<"1", ".", "2", "3", "4", ",", "5", "6", " ", "EUR">>, <<"4", "2">>, <<"1", "0", ".", "0", "0", "0", " ", "EUR">>, <<"n", "o", "t", " ", "a", " ", "n", "u", "m", "b", "e", "r">>, <<"1", ".", "2", "3", "4", "5">>,
                 <<"1", ".", "2", "3", "4", ".", "5", "6", "7", ",", "8", "9">>, <<"EUR", " ", "1", " ", "2", "3", "4">>, <<"1", "e", "3">>, <<"-", "i", "n", "f">>, <<"n", "a", "n">>, <<"1", "_", "0", "0", "0">>,
                 <<"+", "7", ",", "5">>, <<"1", "2", ".", "3", "4", ".", "5", "6", "7">>, <<"2", "NBSP", "5", "0", "0", "NBSP", "EUR">>,
                 <<"\t", "3", ".", "0", "0", "0", "\n">> }

AmountInit ==
    /\ InitCrawl /\ hdrIn = <<>> /\ hdrOut = NoMap
    /\ amtIn \in SeqsUpTo(AmountChars, MaxAmountLen) \cup AmountTexts
    /\ amtOut = None

ParseAmount ==
    /\ pc = "Idle"
    /\ pc' = "Parsed"
    /\ amtOut' = parse_amount_eur(amtIn)
    /\ UNCHANGED <<store, clock, runs, err, site, cur, pendingNav, dom, max_pages,
                   header_map, page_index, seen, batch, idx, total, moved, selIdx, polls,
                   first_before, txn, scraped_at, upk, visited, seen0, nUpserts, clicks,
                   hdrIn, hdrOut, amtIn>>

AmountNext == ParseAmount

AmountSpec == AmountInit /\ [][AmountNext]_vars

(***************************************************************************)
(* Properties.                                                             *)
(***************************************************************************)

\* run() hands the batch to upsert_rows and the commit goes through
Commits == pc = "Upserting" /\ pc' = "Advancing"

\* the row pass of the current page is over and its header map still in place
PageDone == pc \in {"Upserting", "Advancing", "Polling"} /\ ~moved

KeysOf(b) == {b[i].etid : i \in 1..Len(b)}

\* the positions of the batch's records with this key
Hits(key) == {i \in 1..Len(batch) : batch[i].etid = key}

\* the first row of this page's pass with this key
FirstVisited(key) ==
    visited[CHOOSE i \in 1..Len(visited) :
                /\ visited[i].rec.etid = key
                /\ \A j \in 1..(i - 1) : visited[j].rec.etid # key]

EnrichmentFields == {"authority", "summary", "source_url", "direct_url"}

HeadlineFields == {"country", "decision_date", "amount_eur", "controller_or_processor",
                   "quoted_articles", "type"}

\* C1: when a batch is committed, every enrichment field (authority, summary,
\* sourceUrl, directUrl) of a key that was already stored takes the new
\* record's value if that value is non-empty and keeps the stored value if it
\* is empty (the empty text or absent).
C1_CoalesceMerge ==
    [][Commits =>
        \A i \in 1..Len(batch) : \A f \in EnrichmentFields :
            batch[i].etid \in DOMAIN store =>
                store'[batch[i].etid][f] = IF Truthy(batch[i][f]) THEN batch[i][f]
                                           ELSE store[batch[i].etid][f]]_vars

RECURSIVE Applied(_, _, _)
\* the table with all of the rows upserted, in order
Applied(tbl, rows, ts) ==
    IF rows = <<>> THEN tbl ELSE Applied(Upsert(tbl, Head(rows), ts), Tail(rows), ts)

\* C2: the store changes only by the commit of a whole batch, to the store
\* with every record of the batch applied; when a write of the batch fails the
\* store is as it was before the call.  No step leaves the store with only a
\* part of a batch.
C2_PageAtomicity ==
    [][/\ store' # store => Commits /\ store' = Applied(store, batch, scraped_at)
       /\ Commits => store' = Applied(store, batch, scraped_at)
       /\ (pc = "Upserting" /\ pc' = "Failed") => store' = store]_vars

\* C2, its case: two records in the batch, the first written on the open
\* connection and not committed.
C2_Witness ==
    /\ pc = "Upserting" /\ Len(batch) = 2 /\ upk = 2
    /\ txn # store
    /\ batch[1].etid \in DOMAIN txn

BatchKeysOk ==
    /\ \A i \in 1..Len(batch) : Truthy(batch[i].etid)
    /\ \A i, j \in 1..Len(batch) : i # j => batch[i].etid # batch[j].etid

PageStored == pc = "Advancing" /\ ~moved /\ clicks = 0

C5_HeadlineOverwrite ==
    [][Commits =>
        \A i \in 1..Len(batch) :
            batch[i].etid \in DOMAIN store =>
                /\ \A f \in HeadlineFields : store'[batch[i].etid][f] = batch[i][f]
                /\ store'[batch[i].etid].scraped_at = scraped_at]_vars

\* C5, its case: the statement has run for a stored key whose amount and date
\* were present and are absent in the new record.
C5_Witness ==
    /\ pc = "Upserting" /\ upk > 1
    /\ LET r == batch[upk - 1]
       IN  /\ r.etid \in DOMAIN store
           /\ store[r.etid].amount_eur # None /\ store[r.etid].decision_date # None
           /\ store[r.etid].type # <<>>
           /\ r.amount_eur = None /\ r.decision_date = None /\ r.type = <<>>
           /\ txn[r.etid].amount_eur = None /\ txn[r.etid].type = <<>>

\* the next-page loop is through and no polling saw the first row change
NoProgress == pc = "Advancing" /\ ~moved /\ selIdx \notin NextSelectors

C7_PageCap ==
    /\ [](max_pages > 0 => (page_index <= max_pages /\ nUpserts <= max_pages))
    /\ [][(/\ pc = "Advancing" /\ max_pages > 0 /\ page_index >= max_pages
           /\ (moved \/ selIdx \notin NextSelectors)
           /\ pc' # pc)
          => (pc' = "Done" /\ err' = "none")]_vars
    /\ [][(pc # "Done" /\ pc' = "Done")
          => (pc = "Advancing" /\ (moved \/ selIdx \notin NextSelectors) /\ err' = "none")]_vars

\* C7, its case: the cap is 2, the second page is through and a third page
\* has rendered.
C7_Witness ==
    /\ pc = "Advancing" /\ moved
    /\ max_pages = 2 /\ page_index = 2
    /\ nUpserts >= 1

\* the positions (1-based) of the headers whose text contains a candidate of the key
Matching(key) == {i \in 1..Len(hdrIn) : Matches(HeaderLabel(hdrIn[i]), key)}

KeyPos(key) == CHOOSE k \in 1..Len(KeyOrder) : KeyOrder[k] = key

\* the positions of the headers that go to the key: those that contain a
\* candidate of it and of no key before it in the order of the keys
Assigned(key) ==
    {i \in Matching(key) : \A k \in 1..(KeyPos(key) - 1) : i \notin Matching(KeyOrder[k])}

Least(S) == CHOOSE i \in S : \A j \in S : i <= j

Greatest(S) == CHOOSE i \in S : \A j \in S : i >= j

\* C8 as claimed: the index of a key is the position of the first header that
\* contains one of the key's candidates, and absent when there is none.
C8_FirstHeaderWins ==
    pc = "Resolved" =>
        \A key \in Keys :
            hdrOut[key] = IF Matching(key) = {} THEN NoCol ELSE Least(Matching(key)) - 1

\* C8 as amended: each header goes to the first key, in the order etid,
\* country, date, fine, controller, quoted, type, source, of which it contains
\* a candidate; the index of a key is the position of the last header that
\* went to it, and absent when none did.
C8_LastAssignedHeaderWins ==
    pc = "Resolved" =>
        \A key \in Keys :
            hdrOut[key] = IF Assigned(key) = {} THEN NoCol ELSE Greatest(Assigned(key)) - 1

\* C8, its case: two headers go to one key, and a header that contains
\* candidates of two keys went to the earlier one.
C8_Witness ==
    /\ pc = "Resolved"
    /\ Cardinality(Assigned("date")) = 2
    /\ hdrOut["date"] = Greatest(Assigned("date")) - 1
    /\ Matching("source") # {} /\ Assigned("source") = {}
    /\ hdrOut["source"] = NoCol

ResolvedFields == {"etid", "country", "date", "fine", "controller", "quoted", "type"}

\* the normalized labels a field is looked up under in the detail bag, in order
Synonyms(f) ==
    CASE f = "etid"       -> << <<"e", "t", "i", "d">> >>
      [] f = "country"    -> << <<"c", "o", "u", "n", "t", "r", "y">> >>
      [] f = "date"       -> << <<"d", "a", "t", "e", " ", "o", "f", " ", "d", "e", "c", "i", "s", "i", "o", "n">>, <<"d", "a", "t", "e">> >>
      [] f = "fine"       -> << <<"f", "i", "n", "e", " ", "e">>, <<"f", "i", "n", "e", " ", "EUR">>, <<"f", "i", "n", "e">> >>
      [] f = "controller" -> << <<"c", "o", "n", "t", "r", "o", "l", "l", "e", "r", "/", "p", "r", "o", "c", "e", "s", "s", "o", "r">> >>
      [] f = "quoted"     -> << <<"q", "u", "o", "t", "e", "d", " ", "a", "r", "t", ".">>, <<"q", "u", "o", "t", "e", "d", " ", "a", "r", "t">> >>
      [] f = "type"       -> << <<"t", "y", "p", "e">> >>

\* the trimmed text of the row's cell in the field's column, empty without one
CellText(f, cells) ==
    IF header_map[f] # NoCol /\ header_map[f] < Len(cells)
    THEN Strip(cells[header_map[f] + 1].text)
    ELSE <<>>

\* the detail bag's first non-empty value under the field's synonyms, empty without one
BagText(f, bag) ==
    LET hits == {j \in 1..Len(Synonyms(f)) :
                    Synonyms(f)[j] \in DOMAIN bag /\ bag[Synonyms(f)[j]] # <<>>}
    IN  IF hits = {} THEN <<>> ELSE bag[Synonyms(f)[Least(hits)]]

\* C9: the raw value of each of the fields key, country, date, fine,
\* controller, quoted, type of a row is the trimmed text of the row's cell in
\* the field's column when the column is known, within the row's cells and
\* that text is non-empty; else the detail bag's value under the field's
\* synonyms; else the empty text.  A column beyond the row's cells gives the
\* fallback.
C9_FieldResolutionOrder ==
    PageDone =>
        \A n \in 1..Len(visited) : \A f \in ResolvedFields :
            LET cells == RowTab[visited[n].row].cells
                bag   == extract_child_kv(visited[n].panel)
            IN  visited[n].raw[f] = IF CellText(f, cells) # <<>> THEN CellText(f, cells)
                                    ELSE BagText(f, bag)

\* C9, its case: a row cut short of the fine's column whose fine comes from
\* its detail bag, whose key comes from a cell with blanks around it and whose
\* country cell is blank.
C9_Witness ==
    /\ PageDone
    /\ \E n \in 1..Len(visited) :
          LET cells == RowTab[visited[n].row].cells
          IN  /\ header_map["fine"] >= Len(cells)
              /\ visited[n].raw.fine = <<"-", "5">>
              /\ visited[n].raw.etid = <<"F", "R", "-", "0", "0", "2">>
              /\ cells[header_map["etid"] + 1].text # <<"F", "R", "-", "0", "0", "2">>
              /\ visited[n].raw.country = <<"F", "r", "a", "n", "c", "e">>

\* the rows processed under the example's header row, with its cells and its panel
ExampleRows ==
    {n \in 1..Len(visited) :
        /\ PageTab[visited[n].page].headers = HStd
        /\ visited[n].row = 1
        /\ visited[n].panel = 1}

\* C10: the record assembled from the example's header row, primary row and
\* detail panel has key DE-001, country Germany, decisionDate 2022-02-03,
\* amountEur 10000.0, controllerOrProcessor Acme GmbH, quotedArticles Art. 5,
\* type Controller, authority LDA, summary "Sector: Retail. Misuse of data" and
\* sourceUrl http://src; where the page holds that row only, it is the batch.
C10_EndToEndAssembly ==
    PageDone =>
        \A n \in ExampleRows :
            LET rec == visited[n].rec
            IN  /\ rec.etid = <<"D", "E", "-", "0", "0", "1">>
                /\ rec.country = <<"G", "e", "r", "m", "a", "n", "y">>
                /\ rec.decision_date = <<"2", "0", "2", "2", "-", "0", "2", "-", "0", "3">>
                /\ rec.amount_eur = Float(FALSE, 10000, 0)
                /\ rec.controller_or_processor = <<"A", "c", "m", "e", " ", "G", "m", "b", "H">>
                /\ rec.quoted_articles = <<"A", "r", "t", ".", " ", "5">>
                /\ rec.type = <<"C", "o", "n", "t", "r", "o", "l", "l", "e", "r">>
                /\ rec.authority = <<"L", "D", "A">>
                /\ rec.summary = <<"S", "e", "c", "t", "o", "r", ":", " ", "R", "e", "t", "a", "i", "l", ".", " ", "M", "i", "s", "u", "s", "e", " ", "o", "f", " ", "d", "a", "t", "a">>
                /\ rec.source_url = <<"h", "t", "t", "p", ":", "/", "/", "s", "r", "c">>
                /\ Len(PageTab[visited[n].page].rows) = 1 => batch = <<rec>>

\* C10, its case: the example's row was expanded, paired with its panel and
\* its record handed to upsert_rows.
C10_Witness ==
    /\ pc = "Upserting"
    /\ ExampleRows # {}
    /\ Len(visited) = 1 /\ Len(batch) = 1

\* C11: when upsert_rows fails on a page's batch the run ends there with the
\* error (it goes neither to Done nor on to the next-page loop), the store is
\* as the last commit left it, and every key batched on the earlier pages of
\* the run is stored with the field values it had; after the failure nothing
\* happens but the start of another run.
C11_PersistenceFailureSurfaced ==
    /\ [][(pc = "Upserting" /\ pc' \notin {"Upserting", "Advancing"})
          => /\ pc' = "Failed" /\ err' = "sqlite3.Error"
             /\ store' = store
             /\ \A key \in seen0 : key \in DOMAIN store' /\ store'[key] = store[key]]_vars
    /\ [][pc = "Failed" => (pc' = "Loading" /\ runs' = runs + 1 /\ store' = store)]_vars
    /\ [](pc = "Failed" => err # "none")

\* C11, its case: the first run committed a page and failed in the upsert of
\* a later one.
C11_Witness ==
    /\ pc = "Failed" /\ err = "sqlite3.Error"
    /\ runs = 1
    /\ store # <<>>

\* C12: a run whose wait for the table's rows times out on every candidate
\* selector ends there with RuntimeError; up to that point it has begun no
\* page, batched nothing and called upsert_rows never, and the store is what
\* it was when the run started; Extracting is entered only from a resolved
\* wait or from the end of a page.
C12_StructuralTimeoutFatal ==
    /\ [][(pc = "Loading" /\ pc' \notin {"Loading", "Extracting"})
          => (pc' = "Failed" /\ err' = "RuntimeError" /\ store' = store)]_vars
    /\ [](pc = "Loading" => (page_index = 0 /\ nUpserts = 0 /\ batch = <<>> /\ txn = <<>>))
    /\ [][(pc = "Loading" \/ pc' = "Loading") => store' = store]_vars
    /\ [][(pc # "Extracting" /\ pc' = "Extracting") => pc \in {"Loading", "Advancing"}]_vars

\* C12, its case: the second run over a filled store timed out on its load.
C12_Witness ==
    /\ pc = "Failed" /\ err = "RuntimeError"
    /\ runs = 2
    /\ store # <<>>

\* a non-empty text without a digit: no date
NoDateIn(t) == t # <<>> /\ \A i \in 1..Len(t) : t[i] \notin Digits

\* a non-empty text without a digit that spells neither an infinity nor a NaN: no number
NoNumberIn(t) ==
    /\ NoDateIn(t)
    /\ ~Contains(Lower(t), <<"i", "n", "f">>)
    /\ ~Contains(Lower(t), <<"n", "a", "n">>)

\* the cells with a date and a fine that parse put in the columns of date and fine
WithParseable(cells) ==
    [i \in 1..Len(cells) |->
        IF i = header_map["date"] + 1 THEN Cell(<<"0", "3", "/", "0", "2", "/", "2", "0", "2", "2">>, cells[i].href)
        ELSE IF i = header_map["fine"] + 1 THEN Cell(<<"4", "2">>, cells[i].href)
        ELSE cells[i]]

\* a record without regard to its date and amount
OtherFields(r) == [r EXCEPT !.decision_date = None, !.amount_eur = None]

\* C13: a row with a non-empty key not seen before in the run whose date text
\* or fine text is no date (no number) still has its record in the page's
\* batch, with decisionDate (amountEur) absent and with all other fields as
\* the same row with a date and a fine that parse would give them; and a step
\* of the row pass never ends the run.
C13_FieldParseFailureAbsorbed ==
    /\ [][pc = "Extracting" => pc' \in {"Extracting", "Upserting", "Advancing"}]_vars
    /\ [](PageDone =>
            \A n \in 1..Len(visited) :
                LET v     == visited[n]
                    cells == RowTab[v.row].cells
                IN  (/\ Truthy(v.rec.etid) /\ v.rec.etid \notin seen0
                     /\ FirstVisited(v.rec.etid) = v
                     /\ NoDateIn(v.raw.date) \/ NoNumberIn(v.raw.fine))
                    => /\ \E i \in 1..Len(batch) : batch[i] = v.rec
                       /\ NoDateIn(v.raw.date) => v.rec.decision_date = None
                       /\ NoNumberIn(v.raw.fine) => v.rec.amount_eur = None
                       /\ OtherFields(v.rec)
                              = OtherFields(Assemble(header_map, WithParseable(cells), v.panel)))

\* C13, its case: a row whose date cell reads "garbage" and whose fine cell
\* reads "n/a" has its record in the batch, and the same row with other
\* texts there would have had a date and an amount.
C13_Witness ==
    /\ PageDone
    /\ \E n \in 1..Len(visited) :
          LET v == visited[n]
          IN  /\ v.raw.date = <<"g", "a", "r", "b", "a", "g", "e">> /\ v.raw.fine = <<"n", "/", "a">>
              /\ v.rec.country = <<"F", "r", "a", "n", "c", "e">>
              /\ \E i \in 1..Len(batch) : batch[i] = v.rec
              /\ Assemble(header_map, WithParseable(RowTab[v.row].cells), v.panel).amount_eur
                     = Float(FALSE, 42, 0)
              /\ Assemble(header_map, WithParseable(RowTab[v.row].cells), v.panel).decision_date
                     = <<"2", "0", "2", "2", "-", "0", "2", "-", "0", "3">>

\* the text without the characters of the set
Dropping(s, chars) == SelectSeq(s, LAMBDA c : c \notin chars)

RECURSIVE PointsForCommas(_)
PointsForCommas(s) ==
    IF s = <<>> THEN <<>>
    ELSE <<IF Head(s) = "," THEN "." ELSE Head(s)>> \o PointsForCommas(Tail(s))

\* position i of the text holds a separator after a digit and before exactly
\* three digits that a non-digit or the end of the text follows
GroupSeparatorAt(s, i) ==
    /\ s[i] \in {".", ","}
    /\ i >= 2 /\ s[i - 1] \in Digits
    /\ Len(s) >= i + 3
    /\ s[i + 1] \in Digits /\ s[i + 2] \in Digits /\ s[i + 3] \in Digits
    /\ Len(s) >= i + 4 => s[i + 4] \notin Digits

RECURSIVE UpTo(_, _)
\* the first n characters of the text without its group separators
UpTo(s, n) ==
    IF n = 0 THEN <<>>
    ELSE UpTo(s, n - 1) \o (IF GroupSeparatorAt(s, n) THEN <<>> ELSE <<s[n]>>)

\* the amount as the steps of the claim give it
AmountBySteps(s) ==
    IF s = <<>> THEN None
    ELSE LET t == PointsForCommas(Dropping(s, {"EUR", "NBSP", " "}))
         IN  ParseFloat(UpTo(t, Len(t)))

\* C14: the parser gives every text a float or absent: the empty text absent,
\* any other text what float() makes of the text without "€", spaces and
\* no-break spaces, with points for commas and without the separators that
\* stand after a digit and before exactly three digits followed by a non-digit
\* or the end; "1.234,56 €" gives 1234.56, "42" 42.0, "10.000 €" 10000.0, ""
\* and "not a number" absent.
C14_AmountParsing ==
    pc = "Parsed" =>
        /\ amtOut = None \/ (Len(amtOut) = 4 /\ amtOut[1] = "float")
        /\ amtOut = AmountBySteps(amtIn)
        /\ amtIn = <<"1", ".", "2", "3", "4", ",", "5", "6", " ", "EUR">> => amtOut = Float(FALSE, 123456, 2)
        /\ amtIn = <<"4", "2">> => amtOut = Float(FALSE, 42, 0)
        /\ amtIn = <<"1", "0", ".", "0", "0", "0", " ", "EUR">> => amtOut = Float(FALSE, 10000, 0)
        /\ amtIn = <<>> => amtOut = None
        /\ amtIn = <<"n", "o", "t", " ", "a", " ", "n", "u", "m", "b", "e", "r">> => amtOut = None

\* C14, its case: a text with a thousands point, a decimal comma, a space and
\* the currency symbol was parsed.
C14_Witness ==
    /\ pc = "Parsed"
    /\ amtIn = <<"1", ".", "2", "3", "4", ",", "5", "6", " ", "EUR">>
    /\ amtOut = Float(FALSE, 123456, 2)

\* absent, or a float that is not negative
AbsentOrNonNegative(a) == a = None \/ (a[1] = "float" /\ a[2] = FALSE)

\* C15: the amount of every record in a batch, of every record written on the
\* open connection and of every stored record is absent or a non-negative
\* number.
C15_AmountNonNegative ==
    /\ \A i \in 1..Len(batch) : AbsentOrNonNegative(batch[i].amount_eur)
    /\ \A key \in DOMAIN txn : AbsentOrNonNegative(txn[key].amount_eur)
    /\ \A key \in DOMAIN store : AbsentOrNonNegative(store[key].amount_eur)

\* the row pass of the page the document shows is over and nothing was clicked since
PassOver == pc \in {"Upserting", "Advancing"} /\ ~moved /\ clicks = 0

RECURSIVE RowsVisited(_)
RowsVisited(vs) == IF vs = <<>> THEN <<>> ELSE <<Head(vs).row>> \o RowsVisited(Tail(vs))

\* C16: a step of the row pass moves the cursor forward by one or two; a
\* detail row or a primary row without cells at the cursor is stepped over by
\* one and not processed; any other row at the cursor is processed, and it is
\* paired with the row that follows it in the row sequence read after the
\* expand click exactly when that row is a detail row, the cursor then moving
\* by two, else by one.  When the pass is over the rows processed are the
\* page's primary rows with cells, each once, in document order, and no two of
\* them were paired with the same detail row.
C16_RowDetailPairing ==
    /\ [][(pc = "Extracting" /\ pc' = "Extracting") =>
            LET tr == dom[idx + 1]
            IN  /\ idx < Len(dom)
                /\ IF IsDetailRow(tr) \/ Len(CellsOf(tr)) = 0
                   THEN idx' = idx + 1 /\ visited' = visited
                   ELSE /\ Len(visited') = Len(visited) + 1
                        /\ SubSeq(visited', 1, Len(visited)) = visited
                        /\ LET v      == visited'[Len(visited')]
                               paired == /\ idx + 2 <= Len(v.read)
                                         /\ IsDetailRow(v.read[idx + 2])
                           IN  /\ v.row = tr.id /\ v.at = idx /\ tr.kind = "row"
                               /\ v.read[idx + 1] = tr
                               /\ paired => (v.panel = v.read[idx + 2].id /\ idx' = idx + 2)
                               /\ ~paired => (v.panel = 0 /\ idx' = idx + 1)]_vars
    /\ [](PassOver =>
            /\ RowsVisited(visited)
                   = SelectSeq(PageTab[CurPage].rows, LAMBDA r : Len(RowTab[r].cells) > 0)
            /\ \A m, n \in 1..Len(visited) :
                   m < n => visited[n].at >= visited[m].at + Step(visited[m].panel))

\* C16, its case: a pass is over in which the first row was processed
\* without a detail row and the second was paired with the detail row its
\* expand click brought up.
C16_Witness ==
    /\ PassOver
    /\ Len(visited) = 2 /\ Len(dom) = 3
    /\ visited[1].panel = 0 /\ visited[2].panel # 0
    /\ IsDetailRow(dom[3]) /\ idx = 3

\* the position in the registry of the page whose rows the pass processed
ExtractedPos == CHOOSE p \in 1..Len(RegTab[site]) : RegTab[site][p] = visited[1].page

\* C17: between the end of a page's row pass and the return to Extracting or
\* the end of the run the next-page button is clicked at most once, and the
\* document shows the extracted page or the page right after it.
C17_NextTriggeredOnce ==
    (pc \in {"Advancing", "Polling"} /\ visited # <<>>) =>
        /\ clicks <= 1
        /\ cur <= ExtractedPos + 1

\* C18: the record of a row paired with a detail panel that holds a link,
\* when neither the row's source cell nor the detail bag gives a source link,
\* has as its sourceUrl the freeform extractor's: the absolute URL of the
\* panel's first link.
C18_SourceUrlFromFreeform ==
    PageDone =>
        \A n \in 1..Len(visited) :
            LET v == visited[n]
            IN  (/\ v.panel # 0
                 /\ ~Truthy(v.raw.source)
                 /\ PanelTab[v.panel].anchors # <<>>)
                => /\ v.rec.source_url = extract_child_freeform(v.panel).source_url
                   /\ v.rec.source_url = absolute_url(PanelTab[v.panel].anchors[1])

\* C19: a row whose expand click failed was processed all the same: the pass
\* went on with the next row, the row has no detail partner, its record has
\* the key, country, controller, articles and type of its cells, the date and
\* amount parsed from its cells and an empty authority and summary, and the
\* record is in the batch when its key is non-empty and was not seen before.
C19_ExpandFailureSwallowed ==
    /\ [][(pc = "Extracting" /\ Len(visited') > Len(visited)
           /\ visited'[Len(visited')].how = "fail")
          => (pc' = "Extracting" /\ err' = "none" /\ idx' = idx + 1 /\ dom' = dom)]_vars
    /\ [](PageDone =>
            \A n \in 1..Len(visited) :
                LET v     == visited[n]
                    cells == RowTab[v.row].cells
                IN  v.how = "fail" =>
                        /\ v.panel = 0
                        /\ v.rec.etid = CellText("etid", cells)
                        /\ v.rec.country = CellText("country", cells)
                        /\ v.rec.controller_or_processor = CellText("controller", cells)
                        /\ v.rec.quoted_articles = CellText("quoted", cells)
                        /\ v.rec.type = CellText("type", cells)
                        /\ v.rec.decision_date = parse_date(CellText("date", cells))
                        /\ v.rec.amount_eur = parse_amount_eur(CellText("fine", cells))
                        /\ v.rec.authority = <<>> /\ v.rec.summary = <<>>
                        /\ (/\ Truthy(v.rec.etid) /\ v.rec.etid \notin seen0
                            /\ FirstVisited(v.rec.etid) = v)
                           => \E i \in 1..Len(batch) : batch[i] = v.rec)
    /\ [][(pc = "Extracting" /\ pc' = "Failed") => FALSE]_vars

\* C19, its case: the expand click on a row that has a detail panel failed,
\* and the row's record, with the headline fields of its cells and no
\* authority, is in the batch.
C19_Witness ==
    /\ PageDone
    /\ \E n \in 1..Len(visited) :
          /\ visited[n].how = "fail"
          /\ RowTab[visited[n].row].kid # 0
          /\ visited[n].rec.country = <<"G", "e", "r", "m", "a", "n", "y">>
          /\ visited[n].rec.amount_eur = Float(FALSE, 10000, 0)
          /\ visited[n].rec.authority = <<>>
          /\ \E i \in 1..Len(batch) : batch[i] = visited[n].rec

\* every record of the batch is stored, with the batch's headline fields
BatchStored ==
    \A i \in 1..Len(batch) :
        /\ batch[i].etid \in DOMAIN store
        /\ \A f \in HeadlineFields : store[batch[i].etid][f] = batch[i][f]

\* C20: upsert_rows is called only when the row pass of a page is over and
\* before any next-page click of that page, with the page's batch, which does
\* not change during the call and is committed whole; it is called at most
\* once per page; the next-page button is clicked only when the page's batch
\* is stored; and while a page is extracted or upserted the keys batched on
\* the earlier pages of the run are all stored and no write is open outside
\* the call.
C20_UpsertBeforeAdvance ==
    /\ [][(pc # "Upserting" /\ pc' = "Upserting")
          => /\ pc = "Extracting" /\ idx >= Len(dom) /\ clicks = 0 /\ ~moved
             /\ batch # <<>> /\ batch' = batch
             /\ nUpserts' = nUpserts + 1
             /\ txn' = store]_vars
    /\ [][(pc = "Upserting" /\ pc' # "Failed") => batch' = batch]_vars
    /\ [][Commits => store' = Applied(store, batch, scraped_at)]_vars
    /\ [](nUpserts <= page_index)
    /\ [](pc = "Extracting" => nUpserts < page_index)
    /\ [][clicks' > clicks => (pc = "Advancing" /\ BatchStored)]_vars
    /\ [](pc \in {"Extracting", "Upserting"} => \A key \in seen0 : key \in DOMAIN store)
    /\ [](pc # "Upserting" => txn = <<>>)

\* C20, its case: the batch of the second page is being written, the keys of
\* the first page are stored; and the button was clicked with the batch stored.
C20_Witness ==
    /\ pc = "Upserting" /\ page_index = 2 /\ upk > 1
    /\ nUpserts = 2
    /\ seen0 # {} /\ \A key \in seen0 : key \in DOMAIN store

\* the run has a page cap and has extracted that many pages
CapReached == max_pages # 0 /\ page_index >= max_pages

\* C21: once the capped number of pages is extracted the next-page button is
\* not clicked and the step out of Advancing is the one to Done; the button is
\* clicked only when a candidate is visible and the cap is not reached.
C21_CapBeforeTrigger ==
    /\ [][clicks' > clicks =>
            (/\ pc = "Advancing"
             /\ selIdx \in PageTab[CurPage].next
             /\ ~CapReached)]_vars
    /\ [][(pc = "Advancing" /\ CapReached /\ pc' # pc) => (pc' = "Done" /\ err' = "none")]_vars

====
